---- MODULE Spec2Model ----
(***************************************************************************)
(* Model of bendecode.py: the bencode tokenizer (a lazy generator), the    *)
(* recursive-descent decoder, the canonical encoder, main() with its       *)
(* info-hash step, and the per-file loop of the command line.              *)
(*                                                                         *)
(* A bytes object is a sequence of one-character strings; offsets are the  *)
(* 0-based offsets of the Python code.  A decoded value is a record        *)
(*   [t |-> "int" | "bytes" | "str" | "list" | "dict" | "none",            *)
(*    n |-> integer, s |-> bytes, items |-> elements or dict entries]      *)
(* A dict keeps its entries [k |-> key, v |-> value] in insertion order,   *)
(* as Python's dict does.                                                  *)
(***************************************************************************)
EXTENDS Integers, Sequences, FiniteSets, TLC

VARIABLES
    pc,          \* position of the command-line loop / of the current scenario
    print_json,  \* args.json
    data,        \* the bytes of the file being processed (file_data)
    torrent,     \* main(): the decoded value, later with "info_hash" stored
    exc,         \* the exception raised by the current step: [kind, msg]
    gen,         \* tokenizer scenario: the generator's state
    yielded,     \* tokenizer scenario: tokens yielded so far
    obj,         \* encoder scenario: the value tree handed to encode
    encoded,     \* encoder scenario: encode(obj)
    decoded      \* encoder scenario: outcome of decode(encoded)

vars == <<pc, print_json, data, torrent, exc, gen, yielded, obj, encoded, decoded>>

----------------------------------------------------------------------------
(* Bytes *)

\* ord() of the bytes the model uses; "xFF" stands for the byte 0xFF.
Ord(c) ==
    CASE c = " " -> 32  [] c = "+" -> 43  [] c = "-" -> 45  [] c = "." -> 46
      [] c = "0" -> 48  [] c = "1" -> 49  [] c = "2" -> 50  [] c = "3" -> 51
      [] c = "4" -> 52  [] c = "5" -> 53  [] c = "6" -> 54  [] c = "7" -> 55
      [] c = "8" -> 56  [] c = "9" -> 57  [] c = ":" -> 58  [] c = "_" -> 95
      [] c = "a" -> 97  [] c = "b" -> 98  [] c = "c" -> 99  [] c = "d" -> 100
      [] c = "e" -> 101 [] c = "f" -> 102 [] c = "g" -> 103 [] c = "h" -> 104
      [] c = "i" -> 105 [] c = "l" -> 108 [] c = "m" -> 109 [] c = "n" -> 110
      [] c = "o" -> 111 [] c = "p" -> 112 [] c = "s" -> 115 [] c = "t" -> 116
      [] c = "u" -> 117 [] c = "x" -> 120 [] c = "xFF" -> 255

\* b"0" <= char <= b"9" for a one-byte char
IsDigit(c) == Ord(c) >= 48 /\ Ord(c) <= 57

\* data[a:b]
Slice(s, a, b) == SubSeq(s, a + 1, IF b > Len(s) THEN Len(s) ELSE b)

\* data.index(c, i); -1 stands for the ValueError "subsection not found"
Index(s, c, i) ==
    IF \E j \in i..(Len(s) - 1) : s[j + 1] = c
    THEN CHOOSE j \in i..(Len(s) - 1) :
            s[j + 1] = c /\ \A k \in i..(j - 1) : s[k + 1] # c
    ELSE -1

\* number.lstrip(b"-")
RECURSIVE LStripDash(_)
LStripDash(s) ==
    IF s # <<>> /\ Head(s) = "-" THEN LStripDash(Tail(s)) ELSE s

\* bytes.strip() restricted to the one whitespace byte of the model
RECURSIVE LStripSpace(_)
LStripSpace(s) ==
    IF s # <<>> /\ Head(s) = " " THEN LStripSpace(Tail(s)) ELSE s

RECURSIVE RStripSpace(_)
RStripSpace(s) ==
    IF s # <<>> /\ s[Len(s)] = " " THEN RStripSpace(SubSeq(s, 1, Len(s) - 1)) ELSE s

\* length_bytes.isdigit()
IsDigits(s) == s # <<>> /\ \A j \in 1..Len(s) : IsDigit(s[j])

\* value of a run of ASCII digits
RECURSIVE DigitsToNat(_)
DigitsToNat(s) ==
    IF s = <<>> THEN 0
    ELSE 10 * DigitsToNat(SubSeq(s, 1, Len(s) - 1)) + (Ord(s[Len(s)]) - 48)

\* the digit groups int() accepts: digit ("_"? digit)*
RECURSIVE IsIntDigits(_)
IsIntDigits(s) ==
    /\ s # <<>>
    /\ IsDigit(Head(s))
    /\ \/ Len(s) = 1
       \/ /\ s[2] = "_"
          /\ IsIntDigits(SubSeq(s, 3, Len(s)))
       \/ /\ s[2] # "_"
          /\ IsIntDigits(Tail(s))

RECURSIVE DropUnderscores(_)
DropUnderscores(s) ==
    IF s = <<>> THEN <<>>
    ELSE IF Head(s) = "_" THEN DropUnderscores(Tail(s))
    ELSE <<Head(s)>> \o DropUnderscores(Tail(s))

\* int(b"..."): surrounding whitespace, one optional sign, digits with single
\* underscores between them.  ok = FALSE stands for the ValueError.
IntParse(s) ==
    LET t    == RStripSpace(LStripSpace(s))
        sign == IF t # <<>> /\ Head(t) \in {"-", "+"} THEN Head(t) ELSE ""
        body == IF sign = "" THEN t ELSE Tail(t)
    IN  IF IsIntDigits(body)
        THEN [ok |-> TRUE,
              n  |-> IF sign = "-" THEN 0 - DigitsToNat(DropUnderscores(body))
                     ELSE DigitsToNat(DropUnderscores(body))]
        ELSE [ok |-> FALSE, n |-> 0]

\* b"%d" % n
RECURSIVE NatToDigits(_)
NatToDigits(n) ==
    LET d == <<"0", "1", "2", "3", "4", "5", "6", "7", "8", "9">>
    IN  IF n < 10 THEN <<d[n + 1]>>
        ELSE NatToDigits(n \div 10) \o <<d[(n % 10) + 1]>>

\* the formatting with the sign lost
IntToBytesUnsigned(n) == NatToDigits(IF n < 0 THEN 0 - n ELSE n)

IntToBytes(n) == IF n < 0 THEN <<"-">> \o NatToDigits(0 - n) ELSE NatToDigits(n)

----------------------------------------------------------------------------
(* Values *)

IntV(n)    == [t |-> "int",   n |-> n, s |-> <<>>, items |-> <<>>]
BytesV(b)  == [t |-> "bytes", n |-> 0, s |-> b,    items |-> <<>>]
StrV(b)    == [t |-> "str",   n |-> 0, s |-> b,    items |-> <<>>]
ListV(xs)  == [t |-> "list",  n |-> 0, s |-> <<>>, items |-> xs]
DictV(es)  == [t |-> "dict",  n |-> 0, s |-> <<>>, items |-> es]
NoneV      == [t |-> "none",  n |-> 0, s |-> <<>>, items |-> <<>>]

NoExc == [kind |-> "none", msg |-> ""]
Exc(kind, msg) == [kind |-> kind, msg |-> msg]

\* key in d
HasKey(es, k) == \E j \in 1..Len(es) : es[j].k = k

\* d[key], d.get(key) (NoneV when absent)
Lookup(es, k) ==
    IF HasKey(es, k) THEN es[CHOOSE j \in 1..Len(es) : es[j].k = k].v ELSE NoneV

----------------------------------------------------------------------------
(* tokenize: one iteration of the while loop at offset i < len(data).      *)
(* The result is either an exception or the tokens the iteration yields    *)
(* and the offset it leaves in i.                                          *)

TokRaise(kind, msg, i) == [kind |-> kind, msg |-> msg, toks |-> <<>>, i |-> i]
TokYield(toks, i)      == [kind |-> "none", msg |-> "", toks |-> toks, i |-> i]

\* the branch char == b"i"
TokInteger(b, i) ==
    LET end    == Index(b, "e", i + 1)
        number == Slice(b, i + 1, end)
        digits == LStripDash(number)
    IN  IF end = -1 THEN TokRaise("ValueError", "subsection not found", i)
        ELSE IF \/ number = <<>>
                \/ number = <<"-">>
                \/ (digits # <<>> /\ Head(digits) = "0" /\ Len(digits) > 1)
        THEN TokRaise("SyntaxError", "Invalid integer value", i)
        ELSE TokYield(<< <<"i">>, number, <<"e">> >>, end + 1)

\* the string branch without the test of end against len(data): the slice
\* then stops at the end of the buffer
TokStringUnchecked(b, i) ==
    LET colon        == Index(b, ":", i)
        length_bytes == Slice(b, i, colon)
        length       == DigitsToNat(length_bytes)
        start        == colon + 1
        end          == start + length
    IN  IF colon = -1 THEN TokRaise("ValueError", "subsection not found", i)
        ELSE IF ~IsDigits(length_bytes)
        THEN TokRaise("SyntaxError", "Invalid string length prefix", i)
        ELSE TokYield(<< <<"s">>, Slice(b, start, end) >>, end)

\* the branch b"0" <= char <= b"9"
TokString(b, i) ==
    LET colon        == Index(b, ":", i)
        length_bytes == Slice(b, i, colon)
        length       == DigitsToNat(length_bytes)
        start        == colon + 1
        end          == start + length
    IN  IF colon = -1 THEN TokRaise("ValueError", "subsection not found", i)
        ELSE IF ~IsDigits(length_bytes)
        THEN TokRaise("SyntaxError", "Invalid string length prefix", i)
        ELSE IF end > Len(b)
        THEN TokRaise("SyntaxError", "Unexpected end of data in string", i)
        ELSE TokYield(<< <<"s">>, Slice(b, start, end) >>, end)

TokStep(b, i) ==
    LET char == b[i + 1]
    IN  IF char = "i" THEN TokInteger(b, i)
        ELSE IF char \in {"l", "d", "e"} THEN TokYield(<< <<char>> >>, i + 1)
        ELSE IF IsDigit(char) THEN TokString(b, i)
        ELSE TokRaise("SyntaxError", "Unexpected character", i)

\* The generator object: the offset i and the tokens of the current
\* iteration that are still to be yielded.
GenInit == [i |-> 0, q |-> <<>>]

\* next(tokens): a token, or the exception the generator raises
\* (StopIteration when the while loop ends).
GenNext(b, g) ==
    IF g.q # <<>>
    THEN [kind |-> "none", msg |-> "", tok |-> Head(g.q),
          g |-> [i |-> g.i, q |-> Tail(g.q)]]
    ELSE IF g.i >= Len(b)
    THEN [kind |-> "StopIteration", msg |-> "", tok |-> <<>>, g |-> g]
    ELSE LET r == TokStep(b, g.i)
         IN  IF r.kind # "none"
             THEN [kind |-> r.kind, msg |-> r.msg, tok |-> <<>>, g |-> g]
             ELSE [kind |-> "none", msg |-> "", tok |-> Head(r.toks),
                   g |-> [i |-> r.i, q |-> Tail(r.toks)]]

----------------------------------------------------------------------------
(* decode_item and decode.  A result is [kind, msg, val, g]: the exception *)
(* raised (kind "none" when the call returns), the value returned and the  *)
(* generator's state after the call.                                       *)

Raised(kind, msg, g) == [kind |-> kind, msg |-> msg, val |-> NoneV, g |-> g]
Returned(val, g)     == [kind |-> "none", msg |-> "", val |-> val, g |-> g]

\* hash(key) succeeds: int, bytes and str are hashable, list and dict are not
Hashable(v) == v.t \in {"int", "bytes", "str"}

\* result[key] = value: an existing key keeps its place and gets the new value
DictSet(es, k, v) ==
    IF HasKey(es, k)
    THEN [j \in 1..Len(es) |-> IF es[j].k = k THEN [k |-> es[j].k, v |-> v] ELSE es[j]]
    ELSE Append(es, [k |-> k, v |-> v])

RECURSIVE decode_item(_, _, _)
RECURSIVE ListLoop(_, _, _, _)
RECURSIVE DictLoop(_, _, _, _)

\* token == b"i": if next_token() != b"e": raise ValueError; return value
IntAfterEnd(n, t2) ==
    IF t2.kind # "none" THEN Raised(t2.kind, t2.msg, t2.g)
    ELSE IF t2.tok # <<"e">>
    THEN Raised("ValueError", "Invalid integer termination", t2.g)
    ELSE Returned(IntV(n), t2.g)

\* token == b"i": value = int(next_token()), t1 being what next_token() gave
IntAfterNumber(b, t1) ==
    IF t1.kind # "none" THEN Raised(t1.kind, t1.msg, t1.g)
    ELSE IF ~IntParse(t1.tok).ok
    THEN Raised("ValueError", "invalid literal for int()", t1.g)
    ELSE IntAfterEnd(IntParse(t1.tok).n, GenNext(b, t1.g))

\* token == b"s": return next_token()
StrAfterPayload(t1) ==
    IF t1.kind # "none" THEN Raised(t1.kind, t1.msg, t1.g)
    ELSE Returned(BytesV(t1.tok), t1.g)

\* token == b"l": result = []; token = next_token(); the while loop
ListStart(b, t1) ==
    IF t1.kind # "none" THEN Raised(t1.kind, t1.msg, t1.g)
    ELSE ListLoop(b, t1.g, t1.tok, <<>>)

\* the list loop: token = next_token() after the append
ListAfterNext(b, nx, result) ==
    IF nx.kind # "none" THEN Raised(nx.kind, nx.msg, nx.g)
    ELSE ListLoop(b, nx.g, nx.tok, result)

\* the list loop: result.append(r), r being what decode_item gave
ListAfterItem(b, r, result) ==
    IF r.kind # "none" THEN r
    ELSE ListAfterNext(b, GenNext(b, r.g), Append(result, r.val))

\* while token != b"e" of the b"l" branch, entered with the token just read
ListLoop(b, g, token, result) ==
    IF token = <<"e">> THEN Returned(ListV(result), g)
    ELSE ListAfterItem(b, decode_item(b, g, token), result)

\* token == b"d": result = {}; token = next_token(); the while loop
DictStart(b, t1) ==
    IF t1.kind # "none" THEN Raised(t1.kind, t1.msg, t1.g)
    ELSE DictLoop(b, t1.g, t1.tok, <<>>)

\* the dict loop: token = next_token() after the store
DictAfterNext(b, nx, result) ==
    IF nx.kind # "none" THEN Raised(nx.kind, nx.msg, nx.g)
    ELSE DictLoop(b, nx.g, nx.tok, result)

\* the dict loop: result[key] = value, value being what decode_item gave
DictAfterValue(b, key, value, result) ==
    IF value.kind # "none" THEN value
    ELSE IF ~Hashable(key)
    THEN Raised("TypeError", "unhashable type", value.g)
    ELSE DictAfterNext(b, GenNext(b, value.g), DictSet(result, key, value.val))

\* the dict loop: value = decode_item(next_token, next_token()), vt being
\* what the inner next_token() gave
DictAfterValueToken(b, key, vt, result) ==
    IF vt.kind # "none" THEN Raised(vt.kind, vt.msg, vt.g)
    ELSE DictAfterValue(b, key, decode_item(b, vt.g, vt.tok), result)

\* the dict loop: key being what decode_item gave for the key
DictAfterKey(b, key, result) ==
    IF key.kind # "none" THEN key
    ELSE DictAfterValueToken(b, key.val, GenNext(b, key.g), result)

\* while token != b"e" of the b"d" branch, entered with the token just read
DictLoop(b, g, token, result) ==
    IF token = <<"e">> THEN Returned(DictV(result), g)
    ELSE DictAfterKey(b, decode_item(b, g, token), result)

decode_item(b, g, token) ==
    IF token = <<"i">> THEN IntAfterNumber(b, GenNext(b, g))
    ELSE IF token = <<"s">> THEN StrAfterPayload(GenNext(b, g))
    ELSE IF token = <<"l">> THEN ListStart(b, GenNext(b, g))
    ELSE IF token = <<"d">> THEN DictStart(b, GenNext(b, g))
    ELSE Raised("ValueError", "Unexpected token", g)

\* the for loop without its body: whatever the tokenizer still holds is
\* ignored
DecodeTrailingIgnored(val, more) == Returned(val, more.g)

\* for _ in tokens: raise SyntaxError(...); return result -- more being what
\* the for loop's next(tokens) gave
DecodeTrailing(val, more) ==
    IF more.kind = "none"
    THEN Raised("SyntaxError", "Trailing data after valid bencode", more.g)
    ELSE IF more.kind = "StopIteration" THEN Returned(val, more.g)
    ELSE Raised(more.kind, more.msg, more.g)

\* result being what decode_item gave for the first value
DecodeRest(b, result) ==
    IF result.kind # "none" THEN result
    ELSE DecodeTrailing(result.val, GenNext(b, result.g))

\* t0 being what next(tokens) gave
DecodeFirst(b, t0) ==
    IF t0.kind # "none" THEN Raised(t0.kind, t0.msg, t0.g)
    ELSE DecodeRest(b, decode_item(b, t0.g, t0.tok))

decode(b) == DecodeFirst(b, GenNext(b, GenInit))

----------------------------------------------------------------------------
(* encode *)

\* a < b for two bytes objects: lexicographic on the byte values
RECURSIVE BytesLess(_, _)
BytesLess(a, b) ==
    IF b = <<>> THEN FALSE
    ELSE IF a = <<>> THEN TRUE
    ELSE IF Head(a) = Head(b) THEN BytesLess(Tail(a), Tail(b))
    ELSE Ord(Head(a)) < Ord(Head(b))

\* (k1, v1) < (k2, v2) for two items of one dict.  The keys of a dict are
\* unique, so the tuples differ in their keys and the keys decide.
ItemLess(e1, e2) ==
    IF e1.k.t = "int" THEN e1.k.n < e2.k.n ELSE BytesLess(e1.k.s, e2.k.s)

\* sorted() raises TypeError ('<' not supported) when two keys differ in type
SortRaises(es) == \E j, k \in 1..Len(es) : es[j].k.t # es[k].k.t

RECURSIVE InsertItem(_, _)
InsertItem(es, e) ==
    IF es = <<>> THEN <<e>>
    ELSE IF ItemLess(e, Head(es)) THEN <<e>> \o es
    ELSE <<Head(es)>> \o InsertItem(Tail(es), e)

\* the items in insertion order, as obj.items() gives them
sortedAsInserted(es) == es

\* sorted(obj.items())
RECURSIVE sorted(_)
sorted(es) ==
    IF es = <<>> THEN <<>>
    ELSE InsertItem(sorted(SubSeq(es, 1, Len(es) - 1)), es[Len(es)])

\* encode raises TypeError: an unsupported type, or a dict whose keys do not
\* compare
RECURSIVE EncodeRaises(_)
EncodeRaises(o) ==
    \/ o.t = "none"
    \/ /\ o.t = "list"
       /\ \E j \in 1..Len(o.items) : EncodeRaises(o.items[j])
    \/ /\ o.t = "dict"
       /\ \/ SortRaises(o.items)
          \/ \E j \in 1..Len(o.items) :
                EncodeRaises(o.items[j].k) \/ EncodeRaises(o.items[j].v)

RECURSIVE encode(_)
RECURSIVE JoinEncoded(_)
RECURSIVE JoinEncodedItems(_)

\* b"".join(encode(i) for i in obj)
JoinEncoded(xs) ==
    IF xs = <<>> THEN <<>> ELSE encode(Head(xs)) \o JoinEncoded(Tail(xs))

\* b"".join(encode(k) + encode(v) for k, v in items)
JoinEncodedItems(es) ==
    IF es = <<>> THEN <<>>
    ELSE encode(Head(es).k) \o encode(Head(es).v) \o JoinEncodedItems(Tail(es))

encode(o) ==
    IF o.t = "int" THEN <<"i">> \o IntToBytes(o.n) \o <<"e">>
    ELSE IF o.t = "bytes" THEN IntToBytes(Len(o.s)) \o <<":">> \o o.s
    ELSE IF o.t = "str" THEN encode(BytesV(o.s))
    ELSE IF o.t = "list" THEN <<"l">> \o JoinEncoded(o.items) \o <<"e">>
    ELSE <<"d">> \o JoinEncodedItems(sorted(o.items)) \o <<"e">>

----------------------------------------------------------------------------
(* main *)

B_info      == <<"i", "n", "f", "o">>
B_files     == <<"f", "i", "l", "e", "s">>
B_pieces    == <<"p", "i", "e", "c", "e", "s">>
B_path      == <<"p", "a", "t", "h">>
B_path_utf8 == <<"p", "a", "t", "h", ".", "u", "t", "f", "-", "8">>
B_info_hash == <<"i", "n", "f", "o", "_", "h", "a", "s", "h">>

\* s.decode("utf-8") succeeds; of the bytes of the model only 0xFF is not ASCII
Utf8Ok(s) == \A j \in 1..Len(s) : Ord(s[j]) < 128

\* f"{k:>15}" raises TypeError for a bytes object, which is what mydecode
\* leaves when the bytes are not UTF-8
FormatRaises(k) == k.t = "bytes" /\ ~Utf8Ok(k.s)

\* bool(x)
Truthy(x) ==
    CASE x.t = "none" -> FALSE
      [] x.t = "int" -> x.n # 0
      [] x.t \in {"bytes", "str"} -> x.s # <<>>
      [] OTHER -> x.items # <<>>

\* the for loop of print_files; bound: oneline has been assigned
RECURSIVE PrintFilesLoop(_, _)
PrintFilesLoop(entries, bound) ==
    IF entries = <<>> THEN NoExc
    ELSE LET file_entry == Head(entries)
             p1   == Lookup(file_entry.items, BytesV(B_path_utf8))
             path == IF Truthy(p1) THEN p1 ELSE Lookup(file_entry.items, BytesV(B_path))
         IN  IF file_entry.t # "dict"
             THEN Exc("AttributeError", "object has no attribute 'get'")
             ELSE IF path.t = "list"
             THEN IF path.items = <<>> /\ ~bound
                  THEN Exc("UnboundLocalError", "oneline")
                  ELSE PrintFilesLoop(Tail(entries), TRUE)
             ELSE PrintFilesLoop(Tail(entries), bound)

print_files(files_list) ==
    CASE files_list.t = "int" -> Exc("TypeError", "'int' object is not iterable")
      [] files_list.t = "bytes" ->
            IF files_list.s = <<>> THEN NoExc
            ELSE Exc("AttributeError", "object has no attribute 'get'")
      [] files_list.t = "dict" ->
            IF files_list.items = <<>> THEN NoExc
            ELSE Exc("AttributeError", "object has no attribute 'get'")
      [] OTHER -> PrintFilesLoop(files_list.items, FALSE)

\* for ki, vi in v.items()
RECURSIVE DisplayInner(_)
DisplayInner(es) ==
    IF es = <<>> THEN NoExc
    ELSE LET ki == Head(es).k
             vi == Head(es).v
         IN  IF ki = BytesV(B_files)
             THEN LET r == print_files(vi)
                  IN  IF r.kind # "none" THEN r ELSE DisplayInner(Tail(es))
             ELSE IF ki = BytesV(B_pieces) THEN DisplayInner(Tail(es))
             ELSE IF FormatRaises(ki)
             THEN Exc("TypeError", "unsupported format string")
             ELSE DisplayInner(Tail(es))

\* for k, v in torrent.items()
RECURSIVE DisplayLoop(_)
DisplayLoop(es) ==
    IF es = <<>> THEN NoExc
    ELSE LET k == Head(es).k
             v == Head(es).v
         IN  IF FormatRaises(k) THEN Exc("TypeError", "unsupported format string")
             ELSE IF v.t = "dict"
             THEN LET r == DisplayInner(v.items)
                  IN  IF r.kind # "none" THEN r ELSE DisplayLoop(Tail(es))
             ELSE DisplayLoop(Tail(es))

\* the block under "if not print_json"
Display(t) ==
    IF t.t # "dict" THEN Exc("AttributeError", "object has no attribute 'items'")
    ELSE DisplayLoop(t.items)

\* b"info" in torrent, for a bytes torrent: substring test
ContainsBytes(s, sub) ==
    \E j \in 0..(Len(s) - Len(sub)) : SubSeq(s, j + 1, j + Len(sub)) = sub

\* hashlib.sha1(b).hexdigest(): the digest is not computed; it is kept as an
\* opaque text that is a function of the bytes hashed
hexdigest(b) == StrV(<<"sha1">> \o b)

\* json.dumps(decode_keys(torrent), sort_keys=True) raises TypeError when a
\* dict has an int key next to a text key
RECURSIVE JsonRaises(_)
JsonRaises(o) ==
    \/ /\ o.t = "list"
       /\ \E j \in 1..Len(o.items) : JsonRaises(o.items[j])
    \/ /\ o.t = "dict"
       /\ \/ \E j, k \in 1..Len(o.items) :
                o.items[j].k.t = "int" /\ o.items[k].k.t # "int"
          \/ \E j \in 1..Len(o.items) : JsonRaises(o.items[j].v)

\* the info-hash step reading torrent[b"info"] without the membership test:
\* a dict without the key raises KeyError
InfoStepKeyError(t, pj) ==
    LET info_dict == Lookup(t.items, BytesV(B_info))
        t2 == DictV(DictSet(t.items, StrV(B_info_hash), hexdigest(encode(info_dict))))
    IN  IF t.t \in {"int", "bytes", "list"}
        THEN [exc |-> Exc("TypeError", "indices must be integers"), torrent |-> t]
        ELSE IF ~HasKey(t.items, BytesV(B_info))
        THEN [exc |-> Exc("KeyError", "info"), torrent |-> t]
        ELSE IF EncodeRaises(info_dict)
        THEN [exc |-> Exc("TypeError", "'<' not supported"), torrent |-> t]
        ELSE IF info_dict.t # "dict"
        THEN [exc |-> Exc("AttributeError", "object has no attribute 'get'"), torrent |-> t2]
        ELSE IF pj /\ JsonRaises(t2)
        THEN [exc |-> Exc("TypeError", "'<' not supported"), torrent |-> t2]
        ELSE [exc |-> NoExc, torrent |-> t2]

\* main from "if b'info' in torrent" to its end: the exception raised (if
\* any) and the torrent it leaves
InfoStep(t, pj) ==
    LET info_dict == Lookup(t.items, BytesV(B_info))
        t2 == DictV(DictSet(t.items, StrV(B_info_hash), hexdigest(encode(info_dict))))
    IN  IF t.t = "int"
        THEN [exc |-> Exc("TypeError", "argument of type 'int' is not iterable"), torrent |-> t]
        ELSE IF t.t = "bytes"
        THEN [exc |-> IF ContainsBytes(t.s, B_info)
                      THEN Exc("TypeError", "byte indices must be integers")
                      ELSE Exc("InvalidFileException", "No 'info' dictionary found"),
              torrent |-> t]
        ELSE IF t.t = "list"
        THEN [exc |-> IF \E j \in 1..Len(t.items) : t.items[j] = BytesV(B_info)
                      THEN Exc("TypeError", "list indices must be integers")
                      ELSE Exc("InvalidFileException", "No 'info' dictionary found"),
              torrent |-> t]
        ELSE IF ~HasKey(t.items, BytesV(B_info))
        THEN [exc |-> Exc("InvalidFileException", "No 'info' dictionary found"), torrent |-> t]
        ELSE IF EncodeRaises(info_dict)
        THEN [exc |-> Exc("TypeError", "'<' not supported"), torrent |-> t]
        ELSE IF info_dict.t # "dict"
        THEN [exc |-> Exc("AttributeError", "object has no attribute 'get'"), torrent |-> t2]
        ELSE IF pj /\ JsonRaises(t2)
        THEN [exc |-> Exc("TypeError", "'<' not supported"), torrent |-> t2]
        ELSE [exc |-> NoExc, torrent |-> t2]

\* except (InvalidFileException, SyntaxError, ValueError)
Caught == {"InvalidFileException", "SyntaxError", "ValueError"}

----------------------------------------------------------------------------
(* Inputs *)

MaxBufLen     == 4   \* longest buffer enumerated byte by byte
MaxIntBody    == 3   \* longest body enumerated between "i" and "e"
MaxDictPairs  == 2   \* most key/value pairs in an enumerated dictionary buffer
MaxListLen    == 2   \* most elements in an enumerated list value
MaxInnerItems == 2   \* most items in a nested list or dict value

SeqsUpTo(S, n) == UNION {[1..m -> S] : m \in 0..n}

RECURSIVE Flatten(_)
Flatten(ss) == IF ss = <<>> THEN <<>> ELSE Head(ss) \o Flatten(Tail(ss))

Alphabet    == {"i", "l", "d", "e", "0", "1", ":", "a"}
IntAlphabet == {"-", "+", " ", "_", "0", "1", "3"}

IntBuffers == {<<"i">> \o body \o <<"e">> : body \in SeqsUpTo(IntAlphabet, MaxIntBody)}

KeyPieces == {<<"1", ":", "a">>, <<"1", ":", "b">>, <<"4", ":">> \o B_info,
              <<"i", "1", "e">>, <<"l", "e">>, <<"d", "e">>}
ValPieces == {<<"i", "1", "e">>, <<"i", "2", "e">>, <<"l", "e">>, <<"d", "e">>}

DictBuffers ==
    {<<"d">> \o Flatten([j \in 1..Len(ps) |-> ps[j][1] \o ps[j][2]]) \o <<"e">> :
        ps \in SeqsUpTo(KeyPieces \X ValPieces, MaxDictPairs)}

Pieces == KeyPieces \cup ValPieces \cup
          {<<"e">>, <<"l">>, <<"i">>, <<"x">>, <<"5", ":", "a", "b">>, <<"0", "1", ":", "a">>}

PairBuffers == {x \o y : x, y \in Pieces}

Samples == {
    <<"d", "1", ":", "a", "i", "1", "e", "1", ":", "a", "i", "2", "e", "e">>,
    <<"i", "1", "e", "i", "2", "e">>,
    <<"i", "0", "3", "e">>,
    <<"i", "1", "_", "0", "e">>,
    <<"l", "i", "-", "0", "e", "e">>,
    <<"5", ":", "a", "b">>,
    <<"d", "i", "1", "e", "i", "2", "e", "e">>,
    <<"d", "1", ":", "b", "i", "1", "e", "1", ":", "a", "l", "e", "2", ":", "a", "a", "d", "e", "e">>,
    <<"d", "1", ":", "xFF", "i", "1", "e", "e">>,
    <<"d", "4", ":">> \o B_info \o <<"d", "e", "e">>,
    <<"d", "4", ":">> \o B_info \o <<"i", "1", "e", "e">>,
    <<"d", "4", ":">> \o B_info \o <<"d", "1", ":", "b", "i", "1", "e", "i", "1", "e", "l", "e", "e", "e">>,
    <<"d", "4", ":">> \o B_info \o <<"d", "1", ":", "b", "i", "1", "e", "1", ":", "a", "l", "e", "e", "e">>,
    <<"d", "4", ":">> \o B_info \o <<"d", "5", ":">> \o B_files \o <<"i", "1", "e", "e", "e">>,
    <<"d", "4", ":">> \o B_info \o <<"d", "5", ":">> \o B_files
        \o <<"l", "d", "4", ":">> \o B_path \o <<"l", "1", ":", "a", "e", "e", "e", "e", "e">>,
    <<"d", "4", ":">> \o B_info \o <<"d", "5", ":">> \o B_files
        \o <<"l", "d", "4", ":">> \o B_path \o <<"l", "e", "e", "e", "e", "e">>,
    <<"d", "1", ":", "a", "d", "5", ":">> \o B_files \o <<"l", "i", "1", "e", "e", "e", "e">>,
    <<"l", "4", ":">> \o B_info \o <<"e">>,
    <<"5", ":", "x">> \o B_info
}

Buffers == SeqsUpTo(Alphabet, MaxBufLen) \cup IntBuffers \cup DictBuffers
              \cup PairBuffers \cup Samples

\* value trees handed to encode: every dict has unique byte-string keys
Leaves      == {IntV(0 - 1), IntV(0), IntV(10), BytesV(<<>>), BytesV(<<"i", "e">>)}
SmallLeaves == {IntV(0), BytesV(<<"a">>)}
Keys        == {<<"a">>, <<"b">>, <<"a", "a">>}
InnerKeys   == {<<"b">>, <<"a">>}

Injective(f) == \A j, k \in DOMAIN f : j # k => f[j] # f[k]

DictsOver(K, V, n) ==
    {DictV([j \in 1..Len(ks) |-> [k |-> BytesV(ks[j]), v |-> vs[j]]]) :
        <<ks, vs>> \in UNION {{f \in [1..m -> K] : Injective(f)} \X [1..m -> V] : m \in 0..n}}

ListsOver(V, n) == {ListV(xs) : xs \in SeqsUpTo(V, n)}

Inner == ListsOver(SmallLeaves, MaxInnerItems) \cup DictsOver(InnerKeys, SmallLeaves, MaxInnerItems)

DictVals == {IntV(0 - 1), BytesV(<<"i", "e">>), ListV(<<IntV(0)>>),
             DictV(<<[k |-> BytesV(<<"b">>), v |-> IntV(0)], [k |-> BytesV(<<"a">>), v |-> BytesV(<<>>)]>>)}

Values == Leaves \cup ListsOver(Leaves \cup Inner, MaxListLen)
                 \cup DictsOver(Keys, DictVals, Cardinality(Keys))

----------------------------------------------------------------------------
(* The command line: for path in args.paths: main(path.read_bytes(), ...)  *)

NoOutcome == [kind |-> "none", msg |-> "", val |-> NoneV]

Init ==
    /\ pc = "loop"
    /\ print_json \in BOOLEAN
    /\ data = <<>>
    /\ torrent = NoneV
    /\ exc = NoExc
    /\ gen = GenInit
    /\ yielded = <<>>
    /\ obj = NoneV
    /\ encoded = <<>>
    /\ decoded = NoOutcome

\* The loop takes the next path that passes the suffix filter and reads it;
\* a path that does not pass is reported and changes nothing.
ReadFile ==
    /\ pc = "loop"
    /\ pc' = "main"
    /\ \E buf \in Buffers : data' = buf
    /\ torrent' = NoneV
    /\ exc' = NoExc
    /\ UNCHANGED <<print_json, gen, yielded, obj, encoded, decoded>>

\* torrent = decode(file_data)
MainDecode ==
    /\ pc = "main"
    /\ LET r == decode(data)
       IN  IF r.kind # "none"
           THEN /\ exc' = Exc(r.kind, r.msg)
                /\ pc' = "raised"
                /\ UNCHANGED torrent
           ELSE /\ torrent' = r.val
                /\ pc' = "display"
                /\ UNCHANGED exc
    /\ UNCHANGED <<print_json, data, gen, yielded, obj, encoded, decoded>>

\* if not print_json: the report
MainDisplay ==
    /\ pc = "display"
    /\ LET r == IF print_json THEN NoExc ELSE Display(torrent)
       IN  IF r.kind # "none"
           THEN exc' = r /\ pc' = "raised"
           ELSE pc' = "info" /\ UNCHANGED exc
    /\ UNCHANGED <<print_json, data, torrent, gen, yielded, obj, encoded, decoded>>

\* if b"info" in torrent: ... else: raise InvalidFileException
MainInfoHash ==
    /\ pc = "info"
    /\ LET r == InfoStep(torrent, print_json)
       IN  /\ torrent' = r.torrent
           /\ exc' = r.exc
           /\ pc' = IF r.exc.kind # "none" THEN "raised" ELSE "returned"
    /\ UNCHANGED <<print_json, data, gen, yielded, obj, encoded, decoded>>

\* main returned: its locals are gone and the loop goes on
Continue ==
    /\ pc = "returned"
    /\ pc' = "loop"
    /\ data' = <<>>
    /\ torrent' = NoneV
    /\ UNCHANGED <<print_json, exc, gen, yielded, obj, encoded, decoded>>

\* except (InvalidFileException, SyntaxError, ValueError): the error is
\* printed, main's locals and the exception are gone and the loop goes on
Except ==
    /\ pc = "raised"
    /\ exc.kind \in Caught
    /\ pc' = "loop"
    /\ data' = <<>>
    /\ torrent' = NoneV
    /\ exc' = NoExc
    /\ UNCHANGED <<print_json, gen, yielded, obj, encoded, decoded>>

\* any other exception leaves the loop: the program ends with a traceback
Uncaught ==
    /\ pc = "raised"
    /\ exc.kind \notin Caught
    /\ pc' = "crashed"
    /\ UNCHANGED <<print_json, data, torrent, exc, gen, yielded, obj, encoded, decoded>>

Next ==
    \/ ReadFile
    \/ MainDecode
    \/ MainDisplay
    \/ MainInfoHash
    \/ Continue
    \/ Except
    \/ Uncaught

Spec == Init /\ [][Next]_vars

----------------------------------------------------------------------------
(* The tokenizer alone, consumed to its end: for token in tokenize(data)   *)

InitTok ==
    /\ pc = "tok"
    /\ print_json = FALSE
    /\ data \in Buffers
    /\ torrent = NoneV
    /\ exc = NoExc
    /\ gen = GenInit
    /\ yielded = <<>>
    /\ obj = NoneV
    /\ encoded = <<>>
    /\ decoded = NoOutcome

\* one iteration of the while loop that yields its tokens
TokYields ==
    /\ pc = "tok"
    /\ gen.i < Len(data)
    /\ LET r == TokStep(data, gen.i)
       IN  /\ r.kind = "none"
           /\ yielded' = yielded \o r.toks
           /\ gen' = [i |-> r.i, q |-> <<>>]
    /\ UNCHANGED <<pc, print_json, data, torrent, exc, obj, encoded, decoded>>

\* one iteration of the while loop that raises
TokRaises ==
    /\ pc = "tok"
    /\ gen.i < Len(data)
    /\ LET r == TokStep(data, gen.i)
       IN  /\ r.kind # "none"
           /\ exc' = Exc(r.kind, r.msg)
           /\ pc' = "tok_raised"
    /\ UNCHANGED <<print_json, data, torrent, gen, yielded, obj, encoded, decoded>>

\* the while condition fails: the generator is exhausted
TokStop ==
    /\ pc = "tok"
    /\ gen.i >= Len(data)
    /\ pc' = "tok_done"
    /\ UNCHANGED <<print_json, data, torrent, exc, gen, yielded, obj, encoded, decoded>>

NextTok == TokYields \/ TokRaises \/ TokStop

SpecTok == InitTok /\ [][NextTok]_vars

----------------------------------------------------------------------------
(* The codec on value trees: decode(encode(obj))                           *)

InitRT ==
    /\ pc = "encode"
    /\ print_json = FALSE
    /\ data = <<>>
    /\ torrent = NoneV
    /\ exc = NoExc
    /\ gen = GenInit
    /\ yielded = <<>>
    /\ obj \in Values
    /\ encoded = <<>>
    /\ decoded = NoOutcome

EncodeObj ==
    /\ pc = "encode"
    /\ encoded' = encode(obj)
    /\ pc' = "decode"
    /\ UNCHANGED <<print_json, data, torrent, exc, gen, yielded, obj, decoded>>

DecodeEncoded ==
    /\ pc = "decode"
    /\ LET r == decode(encoded)
       IN  decoded' = [kind |-> r.kind, msg |-> r.msg, val |-> r.val]
    /\ pc' = "done"
    /\ UNCHANGED <<print_json, data, torrent, exc, gen, yielded, obj, encoded>>

NextRT == EncodeObj \/ DecodeEncoded

SpecRT == InitRT /\ [][NextRT]_vars

----------------------------------------------------------------------------
(* Properties *)

\* decode(file_data) has raised / has returned in main
DecodeRaised   == pc = "raised" /\ torrent = NoneV
DecodeReturned == pc = "display"

\* a == b for two value trees: lists compare in order, dicts as sets of
\* key/value pairs
RECURSIVE PyEq(_, _)
PyEq(a, b) ==
    /\ a.t = b.t
    /\ a.n = b.n
    /\ a.s = b.s
    /\ Len(a.items) = Len(b.items)
    /\ a.t = "list" =>
          \A j \in 1..Len(a.items) : PyEq(a.items[j], b.items[j])
    /\ a.t = "dict" =>
          \A j \in 1..Len(a.items) : \E k \in 1..Len(b.items) :
              /\ PyEq(a.items[j].k, b.items[k].k)
              /\ PyEq(a.items[j].v, b.items[k].v)

\* C1: decoding the encoding of a valid value tree succeeds and returns a
\* tree equal to it: same integers and byte strings, lists in the same
\* order, dictionaries with the same key/value pairs.
C1_RoundTrip ==
    pc = "done" => decoded.kind = "none" /\ PyEq(decoded.val, obj)

C1_Witness ==
    /\ pc = "done"
    /\ obj.t = "list"
    /\ Len(obj.items) = 2
    /\ obj.items[1] = IntV(0 - 1)
    /\ obj.items[2].t = "dict" /\ Len(obj.items[2].items) = 2
    /\ decoded.val = obj

\* a sorts before b in raw byte order: a is a proper prefix of b, or the
\* first byte in which they differ is smaller in a
RawLess(a, b) ==
    \/ Len(a) < Len(b) /\ SubSeq(b, 1, Len(a)) = a
    \/ \E j \in 1..Len(a) :
          /\ j <= Len(b)
          /\ SubSeq(a, 1, j - 1) = SubSeq(b, 1, j - 1)
          /\ Ord(a[j]) < Ord(b[j])

Perms(n) == {f \in [1..n -> 1..n] : Injective(f)}

\* C2: a dictionary with byte-string keys encodes to "d", then key and
\* value of each entry in ascending raw byte order of the keys, then "e";
\* every insertion order of the same entries encodes to the same bytes.
C2_CanonicalKeyOrder ==
    (pc \in {"decode", "done"} /\ obj.t = "dict") =>
        LET es == obj.items
        IN  /\ \E p \in Perms(Len(es)) :
                  /\ \A j \in 1..(Len(es) - 1) : RawLess(es[p[j]].k.s, es[p[j + 1]].k.s)
                  /\ encoded = <<"d">>
                                \o Flatten([j \in 1..Len(es) |->
                                              encode(es[p[j]].k) \o encode(es[p[j]].v)])
                                \o <<"e">>
            /\ \A p \in Perms(Len(es)) :
                  encode(DictV([j \in 1..Len(es) |-> es[p[j]]])) = encoded

C2_Witness ==
    /\ pc = "decode"
    /\ obj = DictV(<<[k |-> BytesV(<<"b">>), v |-> IntV(0 - 1)],
                     [k |-> BytesV(<<"a">>), v |-> IntV(0 - 1)],
                     [k |-> BytesV(<<"a", "a">>), v |-> IntV(0 - 1)]>>)
    /\ encoded = <<"d", "1", ":", "a", "i", "-", "1", "e",
                   "2", ":", "a", "a", "i", "-", "1", "e",
                   "1", ":", "b", "i", "-", "1", "e", "e">>

StringKeyPieces == {k \in KeyPieces : IsDigit(k[1])}

\* C3: a dictionary in which a key repeats an earlier key of the same
\* dictionary is not decoded: decode fails with the duplicate-key
\* ValueError.
C3_RejectsDuplicateKeys ==
    \A k \in StringKeyPieces : \A v1, v2 \in ValPieces :
        (data = <<"d">> \o k \o v1 \o k \o v2 \o <<"e">> /\ pc \in {"display", "raised"})
            => (DecodeRaised /\ exc.kind = "ValueError")

\* the body of an integer literal is malformed: empty, a lone "-", a leading
\* zero that is not the whole number, or negative zero
MalformedIntBody(body) ==
    LET digits == IF body # <<>> /\ Head(body) = "-" THEN Tail(body) ELSE body
    IN  \/ body = <<>>
        \/ body = <<"-">>
        \/ (digits # <<>> /\ Head(digits) = "0" /\ Len(digits) > 1)
        \/ body = <<"-", "0">>

\* the buffer is one integer literal i<body>e
IsIntLiteral(b) ==
    /\ Len(b) >= 2
    /\ b[1] = "i"
    /\ b[Len(b)] = "e"
    /\ \A j \in 2..(Len(b) - 1) : b[j] # "e"

IntBody(b) == SubSeq(b, 2, Len(b) - 1)

\* C4: an integer literal with a malformed body is rejected: decode raises
\* and returns no value.
C4_RejectsMalformedIntegers ==
    (IsIntLiteral(data) /\ MalformedIntBody(IntBody(data)) /\ pc \in {"display", "raised"})
        => DecodeRaised

\* C5: a buffer made of one complete value followed by at least one more
\* token is rejected with SyntaxError "trailing data"; the first value is
\* not returned.
C5_RejectsTrailingData ==
    (/\ pc \in {"display", "raised"}
     /\ \E k \in 1..(Len(data) - 1) :
           /\ decode(SubSeq(data, 1, k)).kind = "none"
           /\ GenNext(SubSeq(data, k + 1, Len(data)), GenInit).kind = "none")
        => (DecodeRaised /\ exc = Exc("SyntaxError", "Trailing data after valid bencode"))

C5_Witness ==
    /\ data = <<"i", "1", "e", "i", "2", "e">>
    /\ DecodeRaised
    /\ exc.msg = "Trailing data after valid bencode"

\* the tokenizer stands at offset gen.i before a string token whose length
\* prefix ends at the colon at offset c
StringTokenAt(c) ==
    /\ pc = "tok"
    /\ gen.i < c
    /\ c < Len(data)
    /\ data[c + 1] = ":"
    /\ \A j \in gen.i..(c - 1) : IsDigit(data[j + 1])

DeclaredLength(c) == DigitsToNat(SubSeq(data, gen.i + 1, c))

\* C6: at a string token whose end offset colon + 1 + length exceeds the
\* buffer the tokenizer raises SyntaxError and yields nothing; otherwise it
\* yields the marker and a payload of exactly the declared length.
C6_RejectsTruncatedStrings ==
    [][\A c \in 0..Len(data) :
          StringTokenAt(c) =>
              IF c + 1 + DeclaredLength(c) > Len(data)
              THEN /\ pc' = "tok_raised"
                   /\ exc'.kind = "SyntaxError"
                   /\ yielded' = yielded
              ELSE /\ pc' = "tok"
                   /\ Len(yielded') = Len(yielded) + 2
                   /\ yielded'[Len(yielded') - 1] = <<"s">>
                   /\ Len(yielded'[Len(yielded')]) = DeclaredLength(c)
                   /\ yielded'[Len(yielded')]
                         = SubSeq(data, c + 2, c + 1 + DeclaredLength(c))]_vars

C6_Witness ==
    /\ pc = "tok_raised"
    /\ data = <<"5", ":", "a", "b">>
    /\ gen.i = 0
    /\ exc = Exc("SyntaxError", "Unexpected end of data in string")

\* C7: when the decoded top-level dictionary has no key b"info", the
\* info-hash step raises InvalidFileException, which is not one of the
\* syntax or structural error kinds, and stores no digest.
C7_MissingInfo ==
    [][(pc = "info" /\ torrent.t = "dict" /\ ~HasKey(torrent.items, BytesV(B_info)))
          => /\ pc' = "raised"
             /\ exc'.kind = "InvalidFileException"
             /\ exc'.kind \notin {"SyntaxError", "ValueError", "TypeError"}
             /\ torrent' = torrent
             /\ ~HasKey(torrent'.items, StrV(B_info_hash))]_vars

C7_Witness ==
    /\ pc = "raised"
    /\ data = <<"d", "e">>
    /\ torrent = DictV(<<>>)
    /\ exc.kind = "InvalidFileException"

\* every key of every dictionary in the tree is a byte string
RECURSIVE OnlyBytesKeys(_)
OnlyBytesKeys(v) ==
    /\ v.t = "list" => \A j \in 1..Len(v.items) : OnlyBytesKeys(v.items[j])
    /\ v.t = "dict" => \A j \in 1..Len(v.items) :
                          /\ v.items[j].k.t = "bytes"
                          /\ OnlyBytesKeys(v.items[j].v)

\* C8: decode never returns a dictionary that has a key which is not a
\* byte string: such a buffer ends in a TypeError.
C8_DictionaryKeyType ==
    DecodeReturned => OnlyBytesKeys(torrent)

\* an optional "-" followed by one or more ASCII digits
IntGrammar(body) ==
    LET digits == IF body # <<>> /\ Head(body) = "-" THEN Tail(body) ELSE body
    IN  digits # <<>> /\ \A j \in 1..Len(digits) : IsDigit(digits[j])

\* C9: when decode returns an integer for the literal i<body>e, the body
\* is an optional "-" followed by one or more ASCII digits.
C9_IntegerGrammar ==
    (DecodeReturned /\ IsIntLiteral(data) /\ torrent.t = "int")
        => IntGrammar(IntBody(data))

\* C10: decode ends by returning a value or by raising SyntaxError or
\* ValueError, the kinds the per-file loop catches.
C10_ErrorKindTotality ==
    DecodeRaised => exc.kind \in {"SyntaxError", "ValueError"}

====
